---- MODULE Spec2Model ----
(***************************************************************************)
(* Consumer-harm Monte Carlo engine: the sampler                           *)
(* (run_monte_carlo_simulation), the aggregator (calculate_statistics)     *)
(* and the global numpy generator they draw from.                          *)
(*                                                                         *)
(* Numbers.  Money is kept in whole monetary units.  A uniform double in   *)
(* [0,1) is the generator word s in 0..RngMod-1 read as s/RngMod, and a    *)
(* probability is kept in the same unit (p stands for p/RngMod), so the    *)
(* comparison u < p of the source is the integer comparison.  Statistics   *)
(* are exact rationals [num, den]; den = 0 is NaN.                         *)
(***************************************************************************)
EXTENDS Integers, Sequences, FiniteSets, TLC

VARIABLES rng, params, n_sims, results, stats, samples, pc,
          scenario, scenario_results, report,
          first_call, previous,
          excel_file, exit_code

\* the scenario runner's loop frame, its collection, and the comparison report
runner == <<scenario, scenario_results, report>>

\* what the first sampler call of this execution and of the one before returned
history == <<first_call, previous>>

\* main (main.py): what the Excel step left in excel_file, and the exit status
process == <<excel_file, exit_code>>

vars == <<rng, params, n_sims, results, stats, samples, pc, runner, history,
          process>>

(***************************************************************************)
(* Bounds of the model.                                                    *)
(***************************************************************************)
\* resolution of the generator: uniforms are s/RngMod, s in 0..RngMod-1
RngMod == 16
\* largest sample count passed to the sampler
MaxN == 2

(***************************************************************************)
(* Module constants of the program.                                        *)
(***************************************************************************)
SEED == 42
SERVICE_FAILURE_PENALTY == 1000
\* 1.73e6 transactions per year, in units of 10^4 transactions
ANNUAL_TRANSACTIONS == 173

\* a probability given in percent, in generator units
Prob(pct) == (pct * RngMod) \div 100

Dist(lo, md, hi) == [min |-> lo, mode |-> md, max |-> hi]

PARAMS ==
  [base_service_cost      |-> Dist(2500, 3200, 4000),
   hidden_fees            |-> Dist(0, 375, 1100),
   service_failure_prob   |-> Dist(Prob(15), Prob(30), Prob(45)),
   claim_denial_prob      |-> Dist(Prob(60), Prob(85), Prob(95)),
   damage_occurrence_rate |-> Dist(Prob(5), Prob(12), Prob(25)),
   average_damage_value   |-> Dist(500, 2500, 10000)]

(***************************************************************************)
(* The global generator (np.random): a deterministic stream fixed by the   *)
(* seed.  Each double drawn advances the state by one step.                *)
(***************************************************************************)
seed(s) == s % RngMod

NextState(s) == (5 * s + 3) % RngMod

RECURSIVE Advance(_, _)
Advance(s, k) == IF k <= 0 THEN s ELSE Advance(NextState(s), k - 1)

\* the i-th double (1-based) drawn from state s
Uniform(s, i) == Advance(s, i)

(***************************************************************************)
(* Arithmetic helpers.                                                     *)
(***************************************************************************)
CeilDiv(a, b) == IF a <= 0 THEN 0 ELSE (a + b - 1) \div b

RECURSIVE SqrtSearch(_, _, _)
\* least k in lo..hi with k*k >= r  (hi*hi >= r is the caller's invariant)
SqrtSearch(r, lo, hi) ==
  IF lo >= hi THEN hi
  ELSE LET mid == (lo + hi) \div 2
       IN IF mid * mid >= r THEN SqrtSearch(r, lo, mid)
          ELSE SqrtSearch(r, mid + 1, hi)

\* sqrt(a/b) rounded up to a whole unit, given sqrt(a/b) <= cap;
\* positive exactly when a/b is positive, as the floating-point sqrt is
Sqrt(a, b, cap) ==
  IF a <= 0 \/ cap <= 0 THEN 0 ELSE SqrtSearch(CeilDiv(a, b), 0, cap)

BoolInt(b) == IF b THEN 1 ELSE 0

(***************************************************************************)
(* np.random.triangular, as the program calls it with scalar bounds.       *)
(***************************************************************************)
\* the checks without the one of mode against max
TriangularRejects_NoModeCheck(min_val, mode_val, max_val) ==
  \/ min_val > mode_val
  \/ min_val = max_val

\* the parameter checks the library makes before it draws anything
TriangularRejects(min_val, mode_val, max_val) ==
  \/ min_val > mode_val
  \/ mode_val > max_val
  \/ min_val = max_val

\* the inverse CDF with the sign of the lower branch's offset slipped
TriangularDraw_SignSlip(min_val, mode_val, max_val, u) ==
  LET base      == max_val - min_val
      leftbase  == mode_val - min_val
      rightbase == max_val - mode_val
  IN IF u * base <= leftbase * RngMod
       THEN min_val - Sqrt(u * leftbase * base, RngMod, leftbase)
       ELSE max_val - Sqrt((RngMod - u) * rightbase * base, RngMod, rightbase)

\* one draw by inverse CDF from the uniform word u
TriangularDraw(min_val, mode_val, max_val, u) ==
  LET base      == max_val - min_val
      leftbase  == mode_val - min_val
      rightbase == max_val - mode_val
  IN IF u * base <= leftbase * RngMod
       THEN min_val + Sqrt(u * leftbase * base, RngMod, leftbase)
       ELSE max_val - Sqrt((RngMod - u) * rightbase * base, RngMod, rightbase)

\* a call either raises (ok = FALSE, nothing drawn) or returns size samples
\* and leaves the generator size steps further
triangular_sample(min_val, mode_val, max_val, size, s) ==
  IF TriangularRejects(min_val, mode_val, max_val) \/ size < 0
    THEN [ok |-> FALSE, values |-> <<>>, rng |-> s]
    ELSE [ok |-> TRUE,
          values |-> [i \in 1..size |->
                        TriangularDraw(min_val, mode_val, max_val, Uniform(s, i))],
          rng |-> Advance(s, size)]

\* the uniform words drawn from a private copy of the generator
random_NoAdvance(size, s) ==
  [values |-> [i \in 1..size |-> Uniform(s, i)], rng |-> s]

\* np.random.random(size): size uniform words
random(size, s) ==
  [values |-> [i \in 1..size |-> Uniform(s, i)], rng |-> Advance(s, size)]

(***************************************************************************)
(* The sampler.                                                            *)
(***************************************************************************)
NoTable == <<"no table">>

Raised(s) == [status |-> "ValueError", table |-> NoTable, rng |-> s]

\* the penalty charged to the customers without a failure
service_failure_harm_of_Inverted(service_failure) ==
  BoolInt(~service_failure) * SERVICE_FAILURE_PENALTY

service_failure_harm_of(service_failure) ==
  BoolInt(service_failure) * SERVICE_FAILURE_PENALTY

\* damage counted whether or not the claim was denied
damage_harm_of_IgnoringDenial(damage_occurred, damage_value, claim_denied) ==
  BoolInt(damage_occurred) * damage_value

\* damage counted when either flag is set
damage_harm_of_EitherFlag(damage_occurred, damage_value, claim_denied) ==
  BoolInt(damage_occurred \/ claim_denied) * damage_value

damage_harm_of(damage_occurred, damage_value, claim_denied) ==
  BoolInt(damage_occurred) * damage_value * BoolInt(claim_denied)

\* the total without the damage component
total_harm_of_NoDamage(hidden_fees, service_failure_harm, damage_harm) ==
  hidden_fees + service_failure_harm

total_harm_of(hidden_fees, service_failure_harm, damage_harm) ==
  hidden_fees + service_failure_harm + damage_harm

\* the comparison with equality let through
Threshold_Inclusive(u, p) == u <= p

Threshold(u, p) == u < p

Record(service_cost, hidden_fees, service_failure, damage_occurred, damage_value, claim_denied) ==
  LET sfh == service_failure_harm_of(service_failure)
      dh  == damage_harm_of(damage_occurred, damage_value, claim_denied)
  IN [service_cost         |-> service_cost,
      hidden_fees          |-> hidden_fees,
      service_failure      |-> service_failure,
      service_failure_harm |-> sfh,
      damage_occurred      |-> damage_occurred,
      damage_value         |-> damage_value,
      claim_denied         |-> claim_denied,
      damage_harm          |-> dh,
      total_harm           |-> total_harm_of(hidden_fees, sfh, dh)]

Sample(p, key, size, s) ==
  triangular_sample(p[key].min, p[key].mode, p[key].max, size, s)

\* the call from generator state s: the six triangular vectors in source
\* order, then the three uniform vectors; the first call that raises ends it
run_monte_carlo_simulation(p, n, s) ==
  LET service_costs == Sample(p, "base_service_cost", n, s) IN
  IF ~service_costs.ok THEN Raised(service_costs.rng) ELSE
  LET hidden_fees == Sample(p, "hidden_fees", n, service_costs.rng) IN
  IF ~hidden_fees.ok THEN Raised(hidden_fees.rng) ELSE
  LET service_failure_probs ==
        Sample(p, "service_failure_prob", n, hidden_fees.rng) IN
  IF ~service_failure_probs.ok THEN Raised(service_failure_probs.rng) ELSE
  LET claim_denial_probs ==
        Sample(p, "claim_denial_prob", n, service_failure_probs.rng) IN
  IF ~claim_denial_probs.ok THEN Raised(claim_denial_probs.rng) ELSE
  LET damage_occurrence_rates ==
        Sample(p, "damage_occurrence_rate", n, claim_denial_probs.rng) IN
  IF ~damage_occurrence_rates.ok THEN Raised(damage_occurrence_rates.rng) ELSE
  LET damage_values ==
        Sample(p, "average_damage_value", n, damage_occurrence_rates.rng) IN
  IF ~damage_values.ok THEN Raised(damage_values.rng) ELSE
  LET u1 == random(n, damage_values.rng)
      u2 == random(n, u1.rng)
      u3 == random(n, u2.rng)
  IN [status |-> "ok",
      table  |-> [i \in 1..n |->
                    Record(service_costs.values[i],
                           hidden_fees.values[i],
                           Threshold(u1.values[i], service_failure_probs.values[i]),
                           Threshold(u2.values[i], damage_occurrence_rates.values[i]),
                           damage_values.values[i],
                           Threshold(u3.values[i], claim_denial_probs.values[i]))],
      rng    |-> u3.rng]

(***************************************************************************)
(* Exact rationals for the statistics; NaN is what pandas returns for a    *)
(* reduction over no values.                                               *)
(***************************************************************************)
Abs(x) == IF x < 0 THEN -x ELSE x

RECURSIVE Gcd(_, _)
Gcd(a, b) == IF b = 0 THEN a ELSE Gcd(b, a % b)

NaN == [num |-> 0, den |-> 0]

IsNaN(r) == r.den = 0

\* num/den in lowest terms, den > 0
Rat(num, den) ==
  IF den = 0 THEN NaN
  ELSE LET g == Gcd(Abs(num), Abs(den))
           sgn == IF den < 0 THEN -1 ELSE 1
       IN [num |-> sgn * (num \div g), den |-> Abs(den) \div g]

\* the value without the multiplication
RatTimes_Dropped(r, k) == r

RatMinus(a, b) ==
  IF IsNaN(a) \/ IsNaN(b) THEN NaN
  ELSE Rat(a.num * b.den - b.num * a.den, a.den * b.den)

RatTimes(r, k) == IF IsNaN(r) THEN NaN ELSE Rat(r.num * k, r.den)

\* comparisons with NaN are false, as in IEEE arithmetic
RatLeq(a, b) == ~IsNaN(a) /\ ~IsNaN(b) /\ a.num * b.den <= b.num * a.den

RatEq(a, b) == ~IsNaN(a) /\ ~IsNaN(b) /\ a.num * b.den = b.num * a.den

(***************************************************************************)
(* Reductions of the total_harm column (a pandas Series).                  *)
(***************************************************************************)
RECURSIVE SumSeq(_)
SumSeq(xs) == IF xs = <<>> THEN 0 ELSE Head(xs) + SumSeq(Tail(xs))

RECURSIVE Insert(_, _)
Insert(x, sorted) ==
  IF sorted = <<>> THEN <<x>>
  ELSE IF x <= Head(sorted) THEN <<x>> \o sorted
       ELSE <<Head(sorted)>> \o Insert(x, Tail(sorted))

RECURSIVE sort_values(_)
sort_values(xs) == IF xs = <<>> THEN <<>> ELSE Insert(Head(xs), sort_values(Tail(xs)))

Column(table, field) == [i \in 1..Len(table) |-> table[i][field]]

\* the sum taken for the mean
SeriesMean_Undivided(harm) == IF harm = <<>> THEN NaN ELSE Rat(SumSeq(harm), 1)

SeriesMean(harm) == Rat(SumSeq(harm), Len(harm))

SeriesMin(harm) == IF harm = <<>> THEN NaN ELSE Rat(sort_values(harm)[1], 1)

\* the last value of the series taken for its largest
SeriesMax_Last(harm) == IF harm = <<>> THEN NaN ELSE Rat(harm[Len(harm)], 1)

SeriesMax(harm) == IF harm = <<>> THEN NaN ELSE Rat(sort_values(harm)[Len(harm)], 1)

\* the interpolation applied to the values in table order, not sorted
SeriesQuantile_Unsorted(harm, pct) ==
  IF harm = <<>> THEN NaN
  ELSE LET x   == harm
           n   == Len(harm)
           h   == (n - 1) * pct
           lo  == h \div 100
           hi  == IF lo + 1 < n THEN lo + 1 ELSE lo
       IN Rat(100 * x[lo + 1] + (h - 100 * lo) * (x[hi + 1] - x[lo + 1]), 100)

\* the quantile with interpolation 'lower': the order statistic at floor(h)
SeriesQuantile_Lower(harm, pct) ==
  IF harm = <<>> THEN NaN
  ELSE Rat(sort_values(harm)[((Len(harm) - 1) * pct) \div 100 + 1], 1)

\* Series.quantile(pct/100), linear interpolation between order statistics:
\* position h = (n-1)*pct/100 in the sorted values, counted from 0
SeriesQuantile(harm, pct) ==
  IF harm = <<>> THEN NaN
  ELSE LET x   == sort_values(harm)
           n   == Len(harm)
           h   == (n - 1) * pct
           lo  == h \div 100
           hi  == IF lo + 1 < n THEN lo + 1 ELSE lo
       IN Rat(100 * x[lo + 1] + (h - 100 * lo) * (x[hi + 1] - x[lo + 1]), 100)

\* Series.median(): the middle value, or the mean of the two middle values
SeriesMedian(harm) ==
  IF harm = <<>> THEN NaN
  ELSE LET x == sort_values(harm)
           n == Len(harm)
       IN IF n % 2 = 1 THEN Rat(x[(n + 1) \div 2], 1)
          ELSE Rat(x[n \div 2] + x[n \div 2 + 1], 2)

\* Series.std(): sample standard deviation (ddof = 1), kept as the exact
\* variance it is the square root of; NaN for fewer than two values
SeriesStd(harm) ==
  LET n  == Len(harm)
      s1 == SumSeq(harm)
      s2 == SumSeq([i \in 1..n |-> harm[i] * harm[i]])
  IN [sqrt_of |-> IF n < 2 THEN NaN ELSE Rat(n * s2 - s1 * s1, n * (n - 1))]

\* (harm == 0).sum()
CountZero(harm) == Cardinality({i \in 1..Len(harm) : harm[i] = 0})

\* the comparison reversed
CountOver_Below(harm, threshold) == Cardinality({i \in 1..Len(harm) : harm[i] < threshold})

\* the threshold itself counted
CountOver_Inclusive(harm, threshold) == Cardinality({i \in 1..Len(harm) : harm[i] >= threshold})

\* (harm > threshold).sum()
CountOver(harm, threshold) == Cardinality({i \in 1..Len(harm) : harm[i] > threshold})

(***************************************************************************)
(* The aggregator (consumer_harm_monte_carlo.py).  No step of it raises:   *)
(* on a table without records the reductions return NaN and the counts 0.  *)
(***************************************************************************)
NoStats == [status |-> "none"]

calculate_statistics(table) ==
  LET harm == Column(table, "total_harm")
      mean == SeriesMean(harm)
      p95  == SeriesQuantile(harm, 95)
  IN [status |-> "ok",
      stats_dict |->
        ("Mean Harm" :> mean) @@
        ("Median Harm" :> SeriesMedian(harm)) @@
        ("Std Dev" :> SeriesStd(harm)) @@
        ("Min Harm" :> SeriesMin(harm)) @@
        ("Max Harm" :> SeriesMax(harm)) @@
        ("10th Percentile" :> SeriesQuantile(harm, 10)) @@
        ("25th Percentile" :> SeriesQuantile(harm, 25)) @@
        ("75th Percentile" :> SeriesQuantile(harm, 75)) @@
        ("90th Percentile" :> SeriesQuantile(harm, 90)) @@
        ("95th Percentile" :> p95) @@
        ("99th Percentile" :> SeriesQuantile(harm, 99)) @@
        ("Customers with Zero Harm" :> CountZero(harm)) @@
        ("Customers with Harm > $1000" :> CountOver(harm, 1000)) @@
        ("Customers with Harm > $5000" :> CountOver(harm, 5000)) @@
        ("Annual Industry Impact (Mean)" :> RatTimes(mean, ANNUAL_TRANSACTIONS)) @@
        ("Annual Industry Impact (95th %ile)" :> RatTimes(p95, ANNUAL_TRANSACTIONS))]

\* count / len(harm) * 100; a division of a numpy integer by zero gives NaN
Percent(count, n) == Rat(count * 100, n)

\* the percentage taken of a count that includes the threshold itself
PercentOver_Inclusive(harm, threshold) ==
  Percent(CountOver_Inclusive(harm, threshold), Len(harm))

\* (harm > threshold).sum() / len(harm) * 100, counted anew
PercentOver(harm, threshold) == Percent(CountOver(harm, threshold), Len(harm))

\* calculate_statistics of main.py: the same reductions in one dict literal,
\* with the three percentages and the annual impacts computed anew from harm
main_calculate_statistics(table) ==
  LET harm == Column(table, "total_harm")
  IN [status |-> "ok",
      stats_dict |->
        ("Mean Harm" :> SeriesMean(harm)) @@
        ("Median Harm" :> SeriesMedian(harm)) @@
        ("Std Dev" :> SeriesStd(harm)) @@
        ("Min Harm" :> SeriesMin(harm)) @@
        ("Max Harm" :> SeriesMax(harm)) @@
        ("10th Percentile" :> SeriesQuantile(harm, 10)) @@
        ("25th Percentile" :> SeriesQuantile(harm, 25)) @@
        ("75th Percentile" :> SeriesQuantile(harm, 75)) @@
        ("90th Percentile" :> SeriesQuantile(harm, 90)) @@
        ("95th Percentile" :> SeriesQuantile(harm, 95)) @@
        ("99th Percentile" :> SeriesQuantile(harm, 99)) @@
        ("Customers with Zero Harm" :> CountZero(harm)) @@
        ("Customers with Harm > $1000" :> CountOver(harm, 1000)) @@
        ("Customers with Harm > $5000" :> CountOver(harm, 5000)) @@
        ("% with Zero Harm" :> Percent(CountZero(harm), Len(harm))) @@
        ("% with Harm > $1000" :> PercentOver(harm, 1000)) @@
        ("% with Harm > $5000" :> PercentOver(harm, 5000)) @@
        ("Annual Industry Impact (Mean)" :>
           RatTimes(SeriesMean(harm), ANNUAL_TRANSACTIONS)) @@
        ("Annual Industry Impact (95th %ile)" :>
           RatTimes(SeriesQuantile(harm, 95), ANNUAL_TRANSACTIONS))]

(***************************************************************************)
(* Inputs.  The distribution specs each entry of a parameter set is drawn  *)
(* from: the built-in one, and specs that are degenerate, reversed,        *)
(* negative or zero-based.                                                 *)
(***************************************************************************)
Keys == {"base_service_cost", "hidden_fees", "service_failure_prob",
         "claim_denial_prob", "damage_occurrence_rate", "average_damage_value"}

Zero == Dist(0, 0, 0)

AnyProb == Dist(0, RngMod \div 2, RngMod)

HighProb == Dist(RngMod \div 2, RngMod, RngMod)

SpecsFor(key) ==
  CASE key = "base_service_cost" ->
         {PARAMS[key], Dist(4000, 3200, 2500)}
    [] key = "hidden_fees" ->
         {PARAMS[key], Zero, Dist(-200, -100, 0), Dist(0, 1100, 375)}
    [] key = "service_failure_prob" ->
         {PARAMS[key], Zero, HighProb, Dist(Prob(45), Prob(30), Prob(15))}
    [] key = "claim_denial_prob" ->
         {PARAMS[key], Dist(Prob(60), Prob(95), Prob(85))}
    [] key = "damage_occurrence_rate" ->
         {PARAMS[key], Zero, AnyProb}
    [] key = "average_damage_value" ->
         {PARAMS[key], Dist(0, 2500, 10000), Dist(500, 500, 500)}

ParamSets ==
  {[base_service_cost      |-> sc,
    hidden_fees            |-> hf,
    service_failure_prob   |-> sfp,
    claim_denial_prob      |-> cdp,
    damage_occurrence_rate |-> dor,
    average_damage_value   |-> adv] :
      sc  \in SpecsFor("base_service_cost"),
      hf  \in SpecsFor("hidden_fees"),
      sfp \in SpecsFor("service_failure_prob"),
      cdp \in SpecsFor("claim_denial_prob"),
      dor \in SpecsFor("damage_occurrence_rate"),
      adv \in SpecsFor("average_damage_value")}

DistSpecs == UNION {SpecsFor(k) : k \in Keys}

Sizes == (0 - 1)..MaxN

NoResults == [status |-> "none", table |-> NoTable]

NoSamples == [status |-> "none"]

NoCall == [status |-> "none"]

NoScenario == [i |-> 0, res |-> NoResults, stats |-> NoStats]

NoReport == [status |-> "none"]

\* nothing of the scenario runner or of an earlier execution yet
Idle ==
  /\ scenario = NoScenario
  /\ scenario_results = <<>>
  /\ report = NoReport
  /\ first_call = NoCall
  /\ previous = NoCall
  /\ excel_file = "unset"
  /\ exit_code = "running"

(***************************************************************************)
(* The program as a state machine: the module is imported (which seeds the *)
(* generator), then its functions are called.                              *)
(***************************************************************************)
Init ==
  /\ rng = seed(SEED)
  /\ params \in ParamSets
  /\ n_sims = 0
  /\ results = NoResults
  /\ stats = NoStats
  /\ samples = NoSamples
  /\ pc = "imported"
  /\ Idle

\* results = run_monte_carlo_simulation(params, n)
Simulate(n) ==
  LET out == run_monte_carlo_simulation(params, n, rng)
  IN /\ results' = [status |-> out.status, table |-> out.table]
     /\ rng' = out.rng
     /\ n_sims' = n
     /\ stats' = NoStats
     /\ pc' = IF out.status = "ok" THEN "simulated" ELSE "raised"
     /\ UNCHANGED <<params, samples, runner, history, process>>

\* an aggregator that draws from the global generator
Aggregate_ConsumesRandom ==
  /\ results.status = "ok"
  /\ pc \in {"simulated", "aggregated"}
  /\ stats' = calculate_statistics(results.table)
  /\ rng' = NextState(rng)
  /\ pc' = "aggregated"
  /\ UNCHANGED <<params, n_sims, results, samples, runner, history, process>>

\* stats = calculate_statistics(results)
Aggregate ==
  /\ results.status = "ok"
  /\ pc \in {"simulated", "aggregated"}
  /\ stats' = calculate_statistics(results.table)
  /\ pc' = "aggregated"
  /\ UNCHANGED <<rng, params, n_sims, results, samples, runner, history, process>>

\* stats = calculate_statistics(results) with the function of main.py
AggregateMain ==
  /\ results.status = "ok"
  /\ pc \in {"simulated", "aggregated"}
  /\ stats' = main_calculate_statistics(results.table)
  /\ pc' = "aggregated_main"
  /\ UNCHANGED <<rng, params, n_sims, results, samples, runner, history, process>>

\* a direct call triangular_sample(d.min, d.mode, d.max, size)
Triangular(d, size) ==
  LET out == triangular_sample(d.min, d.mode, d.max, size, rng)
  IN /\ samples' = [status |-> IF out.ok THEN "ok" ELSE "ValueError",
                    spec |-> d, size |-> size, values |-> out.values]
     /\ rng' = out.rng
     /\ pc' = "sampled"
     /\ UNCHANGED <<params, n_sims, results, stats, runner, history, process>>

\* calls of the sampler and the aggregator on one parameter set
Next ==
  \/ \E n \in Sizes : Simulate(n)
  \/ Aggregate
  \/ AggregateMain

Spec == Init /\ [][Next]_vars

\* direct calls of the triangular sampler
InitTriangular ==
  /\ rng = seed(SEED)
  /\ params = PARAMS
  /\ n_sims = 0
  /\ results = NoResults
  /\ stats = NoStats
  /\ samples = NoSamples
  /\ pc = "imported"
  /\ Idle

NextTriangular == \E d \in DistSpecs, size \in Sizes : Triangular(d, size)

SpecTriangular == InitTriangular /\ [][NextTriangular]_vars

(***************************************************************************)
(* Two executions of the program.  Each execution imports the module,      *)
(* which seeds the generator, and then calls the sampler; first_call keeps *)
(* what the first call of the execution returned, previous what the first  *)
(* call of the execution before it returned.                               *)
(***************************************************************************)
RunParamSets ==
  {PARAMS,
   [PARAMS EXCEPT !.hidden_fees = Dist(-200, -100, 0)],
   [PARAMS EXCEPT !.service_failure_prob = HighProb,
                  !.damage_occurrence_rate = AnyProb],
   [PARAMS EXCEPT !.average_damage_value = Dist(0, 2500, 10000),
                  !.damage_occurrence_rate = AnyProb],
   [PARAMS EXCEPT !.hidden_fees = Zero]}

InitRuns ==
  /\ rng = seed(SEED)
  /\ params \in RunParamSets
  /\ n_sims = 0
  /\ results = NoResults
  /\ stats = NoStats
  /\ samples = NoSamples
  /\ pc = "imported"
  /\ Idle

\* results = run_monte_carlo_simulation(params, n), remembered if it is the
\* first call since the import
Call(n) ==
  LET out == run_monte_carlo_simulation(params, n, rng)
  IN /\ results' = [status |-> out.status, table |-> out.table]
     /\ rng' = out.rng
     /\ n_sims' = n
     /\ stats' = NoStats
     /\ pc' = IF out.status = "ok" THEN "simulated" ELSE "raised"
     /\ first_call' = IF first_call = NoCall
                        THEN [status |-> out.status, n |-> n, table |-> out.table]
                        ELSE first_call
     /\ UNCHANGED <<params, samples, runner, previous, process>>

\* a process started on an operating-system seed instead of the fixed one
Restart_Unseeded ==
  /\ first_call # NoCall
  /\ rng' \in 0..(RngMod - 1)
  /\ pc' = "imported"
  /\ n_sims' = 0
  /\ results' = NoResults
  /\ stats' = NoStats
  /\ previous' = first_call
  /\ first_call' = NoCall
  /\ UNCHANGED <<params, samples, runner, process>>

\* the program is started again: the import seeds the generator
Restart ==
  /\ first_call # NoCall
  /\ rng' = seed(SEED)
  /\ pc' = "imported"
  /\ n_sims' = 0
  /\ results' = NoResults
  /\ stats' = NoStats
  /\ previous' = first_call
  /\ first_call' = NoCall
  /\ UNCHANGED <<params, samples, runner, process>>

NextRuns ==
  \/ \E n \in Sizes : Call(n)
  \/ Restart

SpecRuns == InitRuns /\ [][NextRuns]_vars

(***************************************************************************)
(* The scenario runner (run_scenario_analysis, and the same loop in the    *)
(* main functions) and the comparison reports made from its collection.    *)
(***************************************************************************)
\* the number of simulated customers (10000 in the source), bounded by MaxN
N_SIMULATIONS == MaxN

\* the built-in catalog, in the order the dict literal lists it
Scenarios(P) ==
  <<[name |-> "Status Quo", params |-> P],
    [name |-> "Moderate Reform",
     params |-> [base_service_cost      |-> P.base_service_cost,
                 hidden_fees            |-> Dist(0, 150, 500),
                 service_failure_prob   |-> Dist(Prob(10), Prob(20), Prob(30)),
                 claim_denial_prob      |-> Dist(Prob(40), Prob(60), Prob(80)),
                 damage_occurrence_rate |-> P.damage_occurrence_rate,
                 average_damage_value   |-> P.average_damage_value]],
    [name |-> "Strong Reform",
     params |-> [base_service_cost      |-> P.base_service_cost,
                 hidden_fees            |-> Dist(0, 50, 200),
                 service_failure_prob   |-> Dist(Prob(5), Prob(10), Prob(15)),
                 claim_denial_prob      |-> Dist(Prob(20), Prob(35), Prob(50)),
                 damage_occurrence_rate |-> Dist(Prob(3), Prob(8), Prob(15)),
                 average_damage_value   |-> P.average_damage_value]]>>

\* the keys of a collection, in its order
Names(coll) == [i \in 1..Len(coll) |-> coll[i].name]

HasKey(coll, name) == \E i \in 1..Len(coll) : coll[i].name = name

\* coll[name], for a key the collection has
Lookup(coll, name) == coll[CHOOSE i \in 1..Len(coll) : coll[i].name = name]

\* a collection that keeps the latest entry only
Put_KeepLatest(coll, name, res, st) ==
  <<[name |-> name, results |-> res, stats |-> st]>>

\* the new entry put in front of the collection
Put_Front(coll, name, res, st) ==
  <<[name |-> name, results |-> res, stats |-> st]>> \o coll

\* coll[name] = {'results': res, 'stats': st} on an insertion-ordered dict:
\* a new key goes last, an existing key keeps its place
Put(coll, name, res, st) ==
  LET entry == [name |-> name, results |-> res, stats |-> st]
  IN IF HasKey(coll, name)
       THEN [i \in 1..Len(coll) |-> IF coll[i].name = name THEN entry ELSE coll[i]]
       ELSE Append(coll, entry)

\* a runner that gives every scenario its own generator seeded with SEED
ScenarioSample_Reseeded ==
  /\ \/ pc \in {"imported", "aggregated"}
     \/ pc = "scenario_stored" /\ scenario.i < Len(Scenarios(params))
  /\ LET i   == IF pc = "scenario_stored" THEN scenario.i + 1 ELSE 1
         out == run_monte_carlo_simulation(Scenarios(params)[i].params,
                                           N_SIMULATIONS, seed(SEED))
     IN /\ scenario' = [i |-> i,
                        res |-> [status |-> out.status, table |-> out.table],
                        stats |-> NoStats]
        /\ rng' = rng
        /\ n_sims' = N_SIMULATIONS
        /\ scenario_results' = IF pc = "scenario_stored" THEN scenario_results
                                                         ELSE <<>>
        /\ pc' = IF out.status = "ok" THEN "scenario_sampled"
                                      ELSE "scenarios_raised"
  /\ UNCHANGED <<params, results, stats, samples, report, history, process>>

\* the first scenario on a call of the runner, the next one inside the loop
ScenarioSample ==
  /\ \/ pc \in {"imported", "aggregated"}
     \/ pc = "scenario_stored" /\ scenario.i < Len(Scenarios(params))
  /\ LET i   == IF pc = "scenario_stored" THEN scenario.i + 1 ELSE 1
         out == run_monte_carlo_simulation(Scenarios(params)[i].params,
                                           N_SIMULATIONS, rng)
     IN /\ scenario' = [i |-> i,
                        res |-> [status |-> out.status, table |-> out.table],
                        stats |-> NoStats]
        /\ rng' = out.rng
        /\ n_sims' = N_SIMULATIONS
        /\ scenario_results' = IF pc = "scenario_stored" THEN scenario_results
                                                         ELSE <<>>
        /\ pc' = IF out.status = "ok" THEN "scenario_sampled"
                                      ELSE "scenarios_raised"
  /\ UNCHANGED <<params, results, stats, samples, report, history, process>>

\* stats = calculate_statistics(results) for the current scenario
ScenarioAggregate ==
  /\ pc = "scenario_sampled"
  /\ scenario' = [scenario EXCEPT !.stats = calculate_statistics(scenario.res.table)]
  /\ pc' = "scenario_aggregated"
  /\ UNCHANGED <<rng, params, n_sims, results, stats, samples,
                 scenario_results, report, history, process>>

\* scenario_results[scenario_name] = {'results': results, 'stats': stats}
ScenarioStore ==
  /\ pc = "scenario_aggregated"
  /\ scenario_results' = Put(scenario_results, Scenarios(params)[scenario.i].name,
                             scenario.res.table, scenario.stats.stats_dict)
  /\ pc' = IF scenario.i = Len(Scenarios(params)) THEN "scenarios_done"
                                                  ELSE "scenario_stored"
  /\ UNCHANGED <<rng, params, n_sims, results, stats, samples,
                 scenario, report, history, process>>

\* (1 - mean / status_quo_mean) * 100; a zero baseline mean divides a float
\* by zero, which gives no exception but a value that is not a number
Reduction(mean, status_quo_mean) ==
  IF IsNaN(mean) \/ IsNaN(status_quo_mean) THEN NaN
  ELSE Rat((status_quo_mean.num * mean.den - mean.num * status_quo_mean.den) * 100,
           status_quo_mean.num * mean.den)

RECURSIVE SummaryFrom(_, _, _)
\* the loop of the text summary from entry i on: every scenario other than
\* 'Status Quo' looks the baseline up, which raises KeyError when it is absent
SummaryFrom(coll, i, figures) ==
  IF i > Len(coll) THEN [status |-> "ok", figures |-> figures]
  ELSE IF coll[i].name = "Status Quo" THEN SummaryFrom(coll, i + 1, figures)
  ELSE IF ~HasKey(coll, "Status Quo")
         THEN [status |-> "KeyError", figures |-> figures]
  ELSE SummaryFrom(coll, i + 1,
         Append(figures,
                [name |-> coll[i].name,
                 reduction |-> Reduction(coll[i].stats["Mean Harm"],
                                 Lookup(coll, "Status Quo").stats["Mean Harm"])]))

write_summary(coll) == SummaryFrom(coll, 1, <<>>)

RECURSIVE SheetRows(_, _, _, _)
SheetRows(coll, i, status_quo_mean, status_quo_impact) ==
  IF i > Len(coll) THEN <<>>
  ELSE LET rest == SheetRows(coll, i + 1, status_quo_mean, status_quo_impact)
       IN IF coll[i].name = "Status Quo" THEN rest
          ELSE <<[name |-> coll[i].name,
                  reduction |-> Reduction(coll[i].stats["Mean Harm"], status_quo_mean),
                  impact_reduction |->
                    RatMinus(status_quo_impact,
                             coll[i].stats["Annual Industry Impact (Mean)"])]>>
               \o rest

\* a sheet that takes the first entry as the baseline when 'Status Quo' is absent
create_summary_sheet_FirstAsBaseline(coll) ==
  IF coll = <<>> THEN [status |-> "KeyError", figures |-> <<>>]
  ELSE LET base == IF HasKey(coll, "Status Quo") THEN Lookup(coll, "Status Quo")
                   ELSE coll[1]
       IN [status |-> "ok",
           figures |-> SheetRows(coll, 1, base.stats["Mean Harm"],
                                 base.stats["Annual Industry Impact (Mean)"])]

\* ExcelExporter.create_summary_sheet: the baseline is looked up before the
\* rows are written
create_summary_sheet(coll) ==
  IF ~HasKey(coll, "Status Quo") THEN [status |-> "KeyError", figures |-> <<>>]
  ELSE LET base == Lookup(coll, "Status Quo")
       IN [status |-> "ok",
           figures |-> SheetRows(coll, 1, base.stats["Mean Harm"],
                                 base.stats["Annual Industry Impact (Mean)"])]

RECURSIVE Restrict(_, _)
\* the entries of a collection whose keys are in keep, in the same order
Restrict(coll, keep) ==
  IF coll = <<>> THEN <<>>
  ELSE IF Head(coll).name \in keep
         THEN <<Head(coll)>> \o Restrict(Tail(coll), keep)
         ELSE Restrict(Tail(coll), keep)

SubCollections(coll) ==
  {Restrict(coll, keep) : keep \in SUBSET {coll[i].name : i \in 1..Len(coll)}}

\* main (main.py), step 4: create_excel_report inside try/except.  Whether the
\* workbook can be written is the environment's choice (openpyxl missing, the
\* file not writable); on an exception the handler prints a warning, sets
\* excel_file = None and main goes on
ExcelReport(written) ==
  /\ pc = "scenarios_done"
  /\ stats.status = "ok"
  /\ excel_file' = IF written THEN "Consumer_Harm_Analysis.xlsx" ELSE "None"
  /\ pc' = "excel_done"
  /\ UNCHANGED <<rng, params, n_sims, results, stats, samples, runner, history,
                 exit_code>>

\* main (main.py): the summary text written from the finished collection
WriteSummary ==
  /\ pc = "excel_done"
  /\ stats.status = "ok"
  /\ LET out == write_summary(scenario_results)
     IN /\ report' = [site |-> "summary", status |-> out.status,
                      names |-> Names(scenario_results), figures |-> out.figures]
        /\ pc' = IF out.status = "ok" THEN "reported" ELSE "report_raised"
  /\ UNCHANGED <<rng, params, n_sims, results, stats, samples,
                 scenario, scenario_results, history, process>>

\* exporter.create_summary_sheet(stats, coll) for a collection of scenario results
CreateSummarySheet(coll) ==
  /\ pc = "scenarios_done"
  /\ stats.status = "ok"
  /\ LET out == create_summary_sheet(coll)
     IN /\ report' = [site |-> "sheet", status |-> out.status,
                      names |-> Names(coll), figures |-> out.figures]
        /\ pc' = IF out.status = "ok" THEN "reported" ELSE "report_raised"
  /\ UNCHANGED <<rng, params, n_sims, results, stats, samples,
                 scenario, scenario_results, history, process>>

\* the end of the process (main.py): main returned True and the status is 0,
\* or an exception left main and the handler of __main__ exits with status 1
Exit ==
  /\ \/ pc \in {"reported", "report_raised"} /\ report.site = "summary"
     \/ pc = "raised"
     \/ pc = "scenarios_raised" /\ results.status = "ok"
  /\ exit_code' = IF pc = "reported" THEN "0" ELSE "1"
  /\ pc' = "exited"
  /\ UNCHANGED <<rng, params, n_sims, results, stats, samples, runner, history,
                 excel_file>>

\* main: the base run with the default arguments
BaseRun == pc = "imported" /\ Simulate(N_SIMULATIONS)

\* main: the statistics of the base run
BaseStats == pc = "simulated" /\ Aggregate

InitMain ==
  /\ rng = seed(SEED)
  /\ params \in ParamSets
  /\ n_sims = 0
  /\ results = NoResults
  /\ stats = NoStats
  /\ samples = NoSamples
  /\ pc = "imported"
  /\ Idle

\* a main function, or a direct call of the scenario runner after the import
NextMain ==
  \/ BaseRun
  \/ BaseStats
  \/ ScenarioSample
  \/ ScenarioAggregate
  \/ ScenarioStore
  \/ \E written \in BOOLEAN : ExcelReport(written)
  \/ WriteSummary
  \/ Exit
  \/ \E coll \in SubCollections(scenario_results) : CreateSummarySheet(coll)

SpecMain == InitMain /\ [][NextMain]_vars

(***************************************************************************)
(* Vocabulary of the properties.                                           *)
(***************************************************************************)
\* a distribution spec satisfying min <= mode <= max
WellFormed(d) == d.min <= d.mode /\ d.mode <= d.max

ValidParams(p) == \A k \in Keys : WellFormed(p[k])

\* run_monte_carlo_simulation has been called and has ended
Called == results.status # "none"

Returned == results.status = "ok"

Records == IF Returned THEN {results.table[i] : i \in 1..Len(results.table)} ELSE {}

\* C1: for every record of the returned table,
\* total_harm = hidden_fees + service_failure_harm + damage_harm
C1_TotalHarmIsSum ==
  \A r \in Records :
    r.total_harm = r.hidden_fees + r.service_failure_harm + r.damage_harm

\* a returned record in which all three harm components are non-zero
C1_Witness ==
  \E r \in Records :
    r.hidden_fees > 0 /\ r.service_failure_harm > 0 /\ r.damage_harm > 0

\* C2 as stated: for every parameter set with min <= mode <= max in each entry
\* and every n > 0, every record produced has total_harm >= 0
C2_Original ==
  (ValidParams(params) /\ n_sims > 0) => \A r \in Records : r.total_harm >= 0

\* C2 amended: the same for parameter sets whose hidden_fees and
\* average_damage_value specs also have min >= 0
C2_TotalHarmNonNegative ==
  (/\ ValidParams(params)
   /\ params.hidden_fees.min >= 0
   /\ params.average_damage_value.min >= 0
   /\ n_sims > 0)
  => \A r \in Records : r.total_harm >= 0

\* such a parameter set has produced a record with positive total harm
C2_Witness ==
  /\ ValidParams(params)
  /\ params.hidden_fees.min >= 0
  /\ params.average_damage_value.min >= 0
  /\ n_sims > 0
  /\ \E r \in Records : r.total_harm > 0 /\ r.damage_harm > 0

\* C3: damage_harm is damage_value when damage_occurred and claim_denied are
\* both true, and 0 otherwise
C3_DamageHarmDefinition ==
  \A r \in Records :
    r.damage_harm = IF r.damage_occurred /\ r.claim_denied
                      THEN r.damage_value ELSE 0

\* one table holds a record with both flags true and one with damage that
\* occurred but whose claim was not denied
C3_Witness ==
  /\ \E r \in Records : r.damage_occurred /\ r.claim_denied /\ r.damage_harm > 0
  /\ \E r \in Records : r.damage_occurred /\ ~r.claim_denied /\ r.damage_value > 0

\* C4 as stated: for a valid parameter set, damage_harm > 0 exactly when
\* damage_occurred and claim_denied are both true
C4_Original ==
  ValidParams(params) =>
    \A r \in Records :
      (r.damage_harm > 0) <=> (r.damage_occurred /\ r.claim_denied)

\* C4 amended: damage_harm > 0 exactly when both flags are true and
\* damage_value > 0
C4_DamageHarmPositive ==
  ValidParams(params) =>
    \A r \in Records :
      (r.damage_harm > 0)
        <=> (r.damage_occurred /\ r.claim_denied /\ r.damage_value > 0)

\* both flags true with a positive damage value, and so positive damage harm
C4_Witness ==
  /\ ValidParams(params)
  /\ \E r \in Records :
       r.damage_occurred /\ r.claim_denied /\ r.damage_value > 0
         /\ r.damage_harm > 0

\* C5: service_failure_harm is 1000 when service_failure is true, else 0
C5_ServiceFailureHarm ==
  \A r \in Records :
    r.service_failure_harm = IF r.service_failure THEN 1000 ELSE 0

\* one table holds a record with a service failure and one without
C5_Witness ==
  /\ \E r \in Records : r.service_failure
  /\ \E r \in Records : ~r.service_failure

\* C6: a call with a parameter set in which some entry violates
\* min <= mode <= max fails (numpy's ValueError is the program's
\* invalid-parameter error) and returns no table
C6_InvalidParametersRejected ==
  (Called /\ ~ValidParams(params)) =>
    (results.status = "ValueError" /\ results.table = NoTable)

\* a call with n > 0 whose only malformed entry is hidden_fees has raised
C6_Witness ==
  /\ Called
  /\ n_sims > 0
  /\ ~WellFormed(params.hidden_fees)
  /\ \A k \in Keys \ {"hidden_fees"} : WellFormed(params[k]) /\ params[k].min < params[k].max
  /\ pc = "raised"

\* C7: a call with n <= 0 fails; no table with zero records is returned
C7_NonPositiveCountRejected ==
  (Called /\ n_sims <= 0) => results.status = "ValueError"

\* C8: for min = mode = max, triangular_sample succeeds and every sample is min
C8_DegenerateReturnsMin ==
  (/\ samples.status # "none"
   /\ samples.size > 0
   /\ samples.spec.min = samples.spec.mode
   /\ samples.spec.mode = samples.spec.max)
  => (/\ samples.status = "ok"
      /\ Len(samples.values) = samples.size
      /\ \A i \in 1..Len(samples.values) : samples.values[i] = samples.spec.min)

\* C9: calculate_statistics on a table with zero records fails with
\* EmptyTableError and returns no mapping
C9_EmptyTableRejected ==
  (pc = "aggregated" /\ Len(results.table) = 0)
    => stats.status = "EmptyTableError"

\* all harm sources disabled, every other entry as built in
AllDisabled ==
  [PARAMS EXCEPT !.hidden_fees = Zero,
                 !.service_failure_prob = Zero,
                 !.damage_occurrence_rate = Zero]

IsRatZero(r) == RatEq(r, Rat(0, 1))

\* C10: with all harm sources disabled and n > 0 the run succeeds, every record
\* has total_harm = 0, and the statistics report mean = median = 0, every
\* percentile 0 and n customers with zero harm
C10_AllDisabledIsZero ==
  (Called /\ params = AllDisabled /\ n_sims > 0) =>
    /\ Returned
    /\ Len(results.table) = n_sims
    /\ \A r \in Records : r.total_harm = 0
    /\ pc = "aggregated" =>
         /\ stats.status = "ok"
         /\ IsRatZero(stats.stats_dict["Mean Harm"])
         /\ IsRatZero(stats.stats_dict["Median Harm"])
         /\ \A k \in {"10th Percentile", "25th Percentile", "75th Percentile",
                      "90th Percentile", "95th Percentile", "99th Percentile"} :
              IsRatZero(stats.stats_dict[k])
         /\ stats.stats_dict["Customers with Zero Harm"] = n_sims

\* calculate_statistics has returned the mapping of the current table
Aggregated == pc = "aggregated"

NonEmpty == Returned /\ Len(results.table) > 0

PercentileKey(p) ==
  CASE p = 10 -> "10th Percentile" [] p = 25 -> "25th Percentile"
    [] p = 75 -> "75th Percentile" [] p = 90 -> "90th Percentile"
    [] p = 95 -> "95th Percentile" [] p = 99 -> "99th Percentile"

Marks == {10, 25, 75, 90, 95, 99}

\* C15: for a non-empty table and marks p1 < p2 among 10, 25, 75, 90, 95, 99,
\* the reported percentile at p1 is <= the one at p2
C15_PercentilesMonotone ==
  (Aggregated /\ NonEmpty) =>
    \A p1, p2 \in Marks :
      p1 < p2 => RatLeq(stats.stats_dict[PercentileKey(p1)],
                        stats.stats_dict[PercentileKey(p2)])

\* statistics of a table whose first record has the larger total harm, with the
\* 10th percentile strictly below the 99th
C15_Witness ==
  /\ Aggregated
  /\ Len(results.table) >= 2
  /\ results.table[1].total_harm > results.table[2].total_harm
  /\ ~RatLeq(stats.stats_dict["99th Percentile"], stats.stats_dict["10th Percentile"])

\* C16: the count of customers with harm > $5000 is <= the count with harm > $1000
C16_CountsNested ==
  Aggregated =>
    stats.stats_dict["Customers with Harm > $5000"]
      <= stats.stats_dict["Customers with Harm > $1000"]

\* statistics of a table with a record above 5000 and one above 1000 only
C16_Witness ==
  /\ Aggregated
  /\ stats.stats_dict["Customers with Harm > $5000"] >= 1
  /\ stats.stats_dict["Customers with Harm > $1000"]
       > stats.stats_dict["Customers with Harm > $5000"]

\* C17: the three counts are the numbers of records with total_harm = 0,
\* total_harm > 1000 (1000 itself not counted) and total_harm > 5000
C17_CountsExact ==
  Aggregated =>
    LET idx == 1..Len(results.table)
    IN /\ stats.stats_dict["Customers with Zero Harm"]
            = Cardinality({i \in idx : results.table[i].total_harm = 0})
       /\ stats.stats_dict["Customers with Harm > $1000"]
            = Cardinality({i \in idx : results.table[i].total_harm > 1000})
       /\ stats.stats_dict["Customers with Harm > $5000"]
            = Cardinality({i \in idx : results.table[i].total_harm > 5000})

\* statistics of a table holding a record with total_harm exactly 1000, which
\* is not counted as above 1000
C17_Witness ==
  /\ Aggregated
  /\ \E r \in Records : r.total_harm = 1000
  /\ stats.stats_dict["Customers with Harm > $1000"] < Len(results.table)

\* C18: for a non-empty table the two annual impacts are Mean Harm and the
\* 95th Percentile, each times ANNUAL_TRANSACTIONS
C18_AnnualImpact ==
  (Aggregated /\ NonEmpty) =>
    LET s      == stats.stats_dict
        mean   == s["Mean Harm"]
        p95    == s["95th Percentile"]
        byMean == s["Annual Industry Impact (Mean)"]
        byP95  == s["Annual Industry Impact (95th %ile)"]
    IN /\ ~IsNaN(byMean) /\ ~IsNaN(byP95)
       /\ byMean.num * mean.den = mean.num * ANNUAL_TRANSACTIONS * byMean.den
       /\ byP95.num * p95.den = p95.num * ANNUAL_TRANSACTIONS * byP95.den

\* statistics with a positive mean and a 95th percentile different from it
C18_Witness ==
  /\ Aggregated /\ NonEmpty
  /\ stats.stats_dict["Mean Harm"].num > 0
  /\ ~RatEq(stats.stats_dict["Mean Harm"], stats.stats_dict["95th Percentile"])

\* C19: a call of calculate_statistics leaves the result table and the
\* generator state unchanged, and a second call on the same table returns the
\* same mapping
C19_AggregatorIsPure ==
  [][(pc' = "aggregated") =>
       /\ results' = results
       /\ rng' = rng
       /\ (pc = "aggregated" => stats' = stats)]_vars

\* statistics returned for a non-empty table drawn from an advanced generator
C19_Witness ==
  Aggregated /\ NonEmpty /\ stats.status = "ok" /\ rng # seed(SEED)

\* a call of run_monte_carlo_simulation ends in this step
SamplerEnds == pc' \in {"simulated", "raised"}

\* C20 as stated: after a call of run_monte_carlo_simulation the parameter set
\* and the generator state are what they were before it
C20_Original ==
  [][SamplerEnds => (params' = params /\ rng' = rng)]_vars

\* C20 amended: the call changes nothing but the generator state, which a
\* successful call leaves exactly 9 * n draws further
C20_OnlyGeneratorAdvances ==
  [][SamplerEnds =>
       /\ params' = params
       /\ samples' = samples
       /\ (results'.status = "ok" => rng' = Advance(rng, 9 * n_sims'))]_vars

\* a successful call with n > 0 has moved the generator
C20_Witness ==
  pc = "simulated" /\ n_sims > 0 /\ rng # seed(SEED)

\* C11: two executions that seed the generator with the same seed and then
\* call the sampler with the same parameter set and the same n return the
\* same table
C11_SameSeedSameTable ==
  (first_call # NoCall /\ previous # NoCall /\ first_call.n = previous.n)
    => first_call = previous

\* the first call of a second execution has returned a table of MaxN records,
\* for the n the first call of the execution before it was made with
C11_Witness ==
  /\ first_call # NoCall /\ previous # NoCall
  /\ first_call.n = previous.n
  /\ first_call.status = "ok"
  /\ first_call.n = MaxN
  /\ rng # seed(SEED)

(***************************************************************************)
(* The scenario runner and the comparison reports.                         *)
(***************************************************************************)
ScenarioNames == Names(Scenarios(params))

LoopEnded == pc \in {"scenarios_done", "scenarios_raised"}

\* C12 (as the claim states it): when the scenario loop has ended, by its last
\* scenario or by a failure, the collection has an entry for every scenario
\* name of the catalog.
C12_EveryScenarioHasEntry ==
  LoopEnded =>
    \A k \in 1..Len(ScenarioNames) : HasKey(scenario_results, ScenarioNames[k])

\* the Sampler's table and the Aggregator's statistics of that table
IsPair(entry) ==
  /\ entry.results # NoTable
  /\ entry.stats = calculate_statistics(entry.results).stats_dict

\* C13: the scenarios are processed in the order of the catalog, the Sampler
\* and then the Aggregator of one scenario before the next one starts, and the
\* keys of the collection are in the catalog's order: Status Quo, Moderate
\* Reform, Strong Reform once the loop is through.
C13_ScenarioOrder ==
  /\ Names(scenario_results) = SubSeq(ScenarioNames, 1, Len(scenario_results))
  /\ \A k \in 1..Len(scenario_results) : IsPair(scenario_results[k])
  /\ pc = "scenario_sampled" =>
       /\ Len(scenario_results) = scenario.i - 1
       /\ scenario.res.status = "ok"
       /\ scenario.stats = NoStats
  /\ pc = "scenario_aggregated" =>
       /\ Len(scenario_results) = scenario.i - 1
       /\ scenario.stats = calculate_statistics(scenario.res.table)
  /\ pc = "scenario_stored" =>
       /\ Len(scenario_results) = scenario.i
       /\ scenario.i < Len(ScenarioNames)
  /\ pc \in {"scenarios_done", "excel_done", "reported", "report_raised"} =>
       Names(scenario_results) = <<"Status Quo", "Moderate Reform", "Strong Reform">>

\* the loop went through the three scenarios
C13_Witness ==
  /\ pc = "scenarios_done"
  /\ Len(scenario_results) = 3
  /\ scenario.i = 3

BaselineMissing == \A k \in 1..Len(report.names) : report.names[k] # "Status Quo"

\* C14: a comparison report over a collection that has scenarios but no
\* 'Status Quo' entry ends with the error of the missing key and carries no
\* comparison figure; a report that carries a figure had the baseline.
C14_MissingBaselineReported ==
  report.status # "none" =>
    /\ (BaselineMissing /\ report.names # <<>>) =>
         (report.status = "KeyError" /\ report.figures = <<>>)
    /\ report.figures # <<>> => ~BaselineMissing

\* the summary sheet was asked for reform scenarios without the baseline
C14_Witness ==
  /\ pc = "report_raised"
  /\ report.site = "sheet"
  /\ report.names # <<>>
  /\ BaselineMissing
  /\ report.status = "KeyError"

(***************************************************************************)
(* The generator as the state the runs share.                              *)
(***************************************************************************)
\* whether the base run of main came before the scenario loop
BaseRunDone == results.status = "ok"

\* the sampler calls that returned before scenario k starts: the base run if
\* there was one, and the scenarios before k
RunsBefore(k) == (k - 1) + BoolInt(BaseRunDone)

RECURSIVE StateAfterRuns(_)
\* the generator state after j sampler calls since the seeding, each of which
\* drew 9 * N_SIMULATIONS doubles
StateAfterRuns(j) ==
  IF j = 0 THEN seed(SEED)
  ELSE LET before == StateAfterRuns(j - 1)
       IN IF before \in 0..(RngMod - 1)
            THEN Advance(before, 9 * N_SIMULATIONS)
            ELSE before

\* C21 (as the claim states it): the table of the 'Status Quo' scenario is the
\* one the scenario gives when it is the first run after the seeding, whether
\* or not the base run was executed before it.
C21_Original ==
  HasKey(scenario_results, "Status Quo") =>
    Lookup(scenario_results, "Status Quo").results
      = run_monte_carlo_simulation(params, N_SIMULATIONS, seed(SEED)).table

\* C21 amended: the runs share the global generator, and the table of a
\* scenario is fixed by its parameter set, n and the number of draws made
\* since the seeding by the runs executed before it.
C21_TableFixedByDrawsBefore ==
  \A k \in 1..Len(scenario_results) :
    scenario_results[k].results
      = run_monte_carlo_simulation(Scenarios(params)[k].params, N_SIMULATIONS,
                                   StateAfterRuns(RunsBefore(k))).table

\* the loop is through after a base run, and the 'Status Quo' scenario, run
\* on the parameter set of the base run, has another table than the base run
C21_Witness ==
  /\ pc = "scenarios_done"
  /\ BaseRunDone
  /\ Lookup(scenario_results, "Status Quo").results # results.table

(***************************************************************************)
(* Failures of the steps of main and the status the process ends with.     *)
(***************************************************************************)
\* the Excel step of main raised: its handler is the only place that sets
\* excel_file to None
ExcelStepFailed == excel_file = "None"

\* C22 (as the claim states it): a run of main that ends reported as
\* successful (status 0) had no failed step; a failed report step is visible
\* in the outcome of the run.
C22_NoErrorSwallowed ==
  exit_code = "0" => ~ExcelStepFailed

(***************************************************************************)
(* The table as a collection of records.                                   *)
(***************************************************************************)
\* the records of a table in the order a permutation of its indices gives
Permuted(table, perm) == [i \in 1..Len(table) |-> table[perm[i]]]

Type7(harm, p) ==
  LET x  == sort_values(harm)
      h  == (Len(harm) - 1) * p
      fl == h \div 100
      ce == CeilDiv(h, 100)
  IN Rat(100 * x[fl + 1] + (h - 100 * fl) * (x[ce + 1] - x[fl + 1]), 100)

\* C24: every reported percentile of a non-empty table is the type-7 quantile
\* of the total_harm values at its mark; for a table of one record each
\* percentile is the single value.
C24_PercentilesAreType7 ==
  (Aggregated /\ NonEmpty) =>
    LET harm == Column(results.table, "total_harm")
    IN \A p \in Marks :
         /\ stats.stats_dict[PercentileKey(p)] = Type7(harm, p)
         /\ Len(harm) = 1 => stats.stats_dict[PercentileKey(p)] = Rat(harm[1], 1)

\* the 25th percentile of a table of two or more records lies strictly between
\* the smallest and the largest value, so it was interpolated
C24_Witness ==
  /\ Aggregated
  /\ Len(results.table) >= 2
  /\ ~RatLeq(stats.stats_dict["25th Percentile"], stats.stats_dict["Min Harm"])
  /\ ~RatLeq(stats.stats_dict["Max Harm"], stats.stats_dict["25th Percentile"])

(***************************************************************************)
(* The sampled fields of a record.                                         *)
(***************************************************************************)
\* C25 (as the claim states it): in every record produced from a parameter
\* set with min <= mode <= max in each entry, hidden_fees >= 0 and
\* damage_value >= 0.
C25_Original ==
  ValidParams(params) =>
    \A r \in Records : r.hidden_fees >= 0 /\ r.damage_value >= 0

\* C25 amended: the same for parameter sets whose hidden_fees and
\* average_damage_value specs also have min >= 0.
C25_SampledFieldsNonNegative ==
  (/\ ValidParams(params)
   /\ params.hidden_fees.min >= 0
   /\ params.average_damage_value.min >= 0)
  => \A r \in Records : r.hidden_fees >= 0 /\ r.damage_value >= 0

\* such a parameter set has produced a record with positive hidden fees and a
\* positive damage value although no damage occurred
C25_Witness ==
  /\ ValidParams(params)
  /\ params.hidden_fees.min >= 0
  /\ params.average_damage_value.min >= 0
  /\ \E r \in Records :
       r.hidden_fees > 0 /\ r.damage_value > 0 /\ ~r.damage_occurred

(***************************************************************************)
(* The draws of one sampler call, by their place in the stream: the call   *)
(* draws nine vectors of n doubles one after the other, vector number      *)
(* block (from 0) starting block * n doubles after the state the call      *)
(* started in.                                                             *)
(***************************************************************************)
\* the i-th double of vector number block of a call of size n started in s
DrawAt(s, n, block, i) == Uniform(Advance(s, block * n), i)

\* the i-th sample of params[key], drawn as vector number block
SampleAt(s, n, key, block, i) ==
  TriangularDraw(params[key].min, params[key].mode, params[key].max,
                 DrawAt(s, n, block, i))

\* the sampler call of this step returned a table
SamplerReturns == pc' = "simulated" /\ results'.status = "ok"

\* C26: in the table a sampler call returns, each flag of record i is the
\* strict comparison of its own uniform draw with its own probability sample:
\* service_failure iff u1[i] < service_failure_prob[i], damage_occurred iff
\* u2[i] < damage_occurrence_rate[i], claim_denied iff u3[i] <
\* claim_denial_prob[i]; a probability sample of 0 gives a false flag.
C26_StrictThresholds ==
  [][SamplerReturns =>
       \A i \in 1..n_sims' :
         LET r   == results'.table[i]
             sfp == SampleAt(rng, n_sims', "service_failure_prob", 2, i)
             cdp == SampleAt(rng, n_sims', "claim_denial_prob", 3, i)
             dor == SampleAt(rng, n_sims', "damage_occurrence_rate", 4, i)
             u1  == DrawAt(rng, n_sims', 6, i)
             u2  == DrawAt(rng, n_sims', 7, i)
             u3  == DrawAt(rng, n_sims', 8, i)
         IN /\ r.service_failure <=> u1 < sfp
            /\ r.damage_occurred <=> u2 < dor
            /\ r.claim_denied <=> u3 < cdp
            /\ sfp = 0 => ~r.service_failure
            /\ dor = 0 => ~r.damage_occurred
            /\ cdp = 0 => ~r.claim_denied]_vars

\* a table of two records from a parameter set whose damage rate starts at
\* 0: damage with a denied claim in one record, neither in the other
C26_Witness ==
  /\ Returned
  /\ n_sims >= 2
  /\ params.damage_occurrence_rate.min = 0
  /\ \E r1, r2 \in Records :
       /\ r1.damage_occurred /\ r1.claim_denied
       /\ ~r2.damage_occurred /\ ~r2.claim_denied

(***************************************************************************)
(* The stream of the global generator over a full run.                     *)
(***************************************************************************)
\* a step that is a sampler call: the base run or the run of a scenario
SamplerStep ==
  pc' \in {"simulated", "raised", "scenario_sampled", "scenarios_raised"}

SamplerStepReturns == pc' \in {"simulated", "scenario_sampled"}

\* the parameter set and the table of the sampler call of this step
CallParams ==
  IF pc' \in {"simulated", "raised"} THEN params
  ELSE Scenarios(params)[scenario'.i].params

CallTable == IF pc' = "simulated" THEN results'.table ELSE scenario'.res.table

\* the i-th sample of p[key], drawn as vector number block of the call
SampleOf(p, s, n, key, block, i) ==
  TriangularDraw(p[key].min, p[key].mode, p[key].max, DrawAt(s, n, block, i))

\* the table is the one whose columns were drawn from state s in the order
\* service_cost, hidden_fees, service_failure_prob, claim_denial_prob,
\* damage_occurrence_rate, damage_value, then the failure, damage and denial
\* uniforms
InStreamOrder(table, p, s, n) ==
  /\ Len(table) = n
  /\ \A i \in 1..n :
       /\ table[i].service_cost = SampleOf(p, s, n, "base_service_cost", 0, i)
       /\ table[i].hidden_fees = SampleOf(p, s, n, "hidden_fees", 1, i)
       /\ table[i].service_failure
            <=> DrawAt(s, n, 6, i) < SampleOf(p, s, n, "service_failure_prob", 2, i)
       /\ table[i].claim_denied
            <=> DrawAt(s, n, 8, i) < SampleOf(p, s, n, "claim_denial_prob", 3, i)
       /\ table[i].damage_occurred
            <=> DrawAt(s, n, 7, i) < SampleOf(p, s, n, "damage_occurrence_rate", 4, i)
       /\ table[i].damage_value = SampleOf(p, s, n, "average_damage_value", 5, i)

\* C27: the generator holds the seeded state when the first call starts and
\* is set by nothing but the draws: a step that is no sampler call leaves it
\* alone, and a sampler call starts in the state the previous one left, draws
\* its nine vectors in the fixed order and leaves the generator 9 * n doubles
\* further (a call that raises, as many doubles as the vectors before the
\* rejected one took).
C27_SequentialStream ==
  [][/\ pc = "imported" => rng = seed(SEED)
     /\ ~SamplerStep => rng' = rng
     /\ SamplerStepReturns =>
          /\ rng' = Advance(rng, 9 * N_SIMULATIONS)
          /\ InStreamOrder(CallTable, CallParams, rng, N_SIMULATIONS)
     /\ (SamplerStep /\ ~SamplerStepReturns) =>
          \E j \in 0..5 : rng' = Advance(rng, j * N_SIMULATIONS)]_vars

\* the 'Status Quo' scenario has been sampled after the base run: the base run
\* took the first 9 * n doubles of the stream, the scenario the next 9 * n
C27_Witness ==
  /\ pc = "scenario_sampled"
  /\ scenario.i = 1
  /\ BaseRunDone
  /\ InStreamOrder(results.table, params, seed(SEED), N_SIMULATIONS)
  /\ InStreamOrder(scenario.res.table, params, StateAfterRuns(1), N_SIMULATIONS)
  /\ rng = StateAfterRuns(2)

(***************************************************************************)
(* The collection while the scenario loop runs.                            *)
(***************************************************************************)
\* the scenarios processed when the step is over: all up to the current one
\* once it is stored, all before it while it is sampled and aggregated
ProcessedAfterStep ==
  IF pc' \in {"scenario_sampled", "scenario_aggregated", "scenarios_raised"}
    THEN scenario'.i - 1
    ELSE scenario'.i

\* C28: after every step the collection holds exactly the scenarios processed
\* so far, in their order; the entry a step stores pairs the name of the
\* current scenario with the table the sampler returned for it and the
\* statistics computed from that table; and no step changes an entry that
\* was stored before it.
C28_CollectionGrowsByPairs ==
  [][/\ Len(scenario_results') = ProcessedAfterStep
     /\ Names(scenario_results') = SubSeq(ScenarioNames, 1, ProcessedAfterStep)
     /\ \A k \in 1..Len(scenario_results) :
          /\ k <= Len(scenario_results')
          /\ scenario_results'[k] = scenario_results[k]
     /\ Len(scenario_results') > Len(scenario_results) =>
          /\ Len(scenario_results') = Len(scenario_results) + 1
          /\ scenario_results'[Len(scenario_results')]
               = [name    |-> ScenarioNames[scenario.i],
                  results |-> scenario.res.table,
                  stats   |-> calculate_statistics(scenario.res.table).stats_dict]
          /\ scenario.res.status = "ok"]_vars

\* the second scenario has been stored after the first, with another table
C28_Witness ==
  /\ pc = "scenario_stored"
  /\ scenario.i = 2
  /\ Len(scenario_results) = 2
  /\ scenario_results[1].results # scenario_results[2].results
  /\ scenario_results[2].results = scenario.res.table

(***************************************************************************)
(* The two aggregators.                                                    *)
(***************************************************************************)
AggregatedMain == pc = "aggregated_main"

\* C29: for a non-empty table the aggregator of main.py returns, for every
\* metric name the two aggregators share, the value the aggregator of
\* consumer_harm_monte_carlo.py returns, and each of its percentages is the
\* count of the same name divided by n, times 100.
C29_AggregatorsAgree ==
  (AggregatedMain /\ NonEmpty) =>
    LET other == calculate_statistics(results.table).stats_dict
        n     == Len(results.table)
    IN /\ \A key \in DOMAIN stats.stats_dict \cap DOMAIN other :
            stats.stats_dict[key] = other[key]
       /\ DOMAIN other \subseteq DOMAIN stats.stats_dict
       /\ stats.stats_dict["% with Zero Harm"]
            = Rat(stats.stats_dict["Customers with Zero Harm"] * 100, n)
       /\ stats.stats_dict["% with Harm > $1000"]
            = Rat(stats.stats_dict["Customers with Harm > $1000"] * 100, n)
       /\ stats.stats_dict["% with Harm > $5000"]
            = Rat(stats.stats_dict["Customers with Harm > $5000"] * 100, n)

\* the statistics of main.py for a table of two records, one of them with a
\* total harm of exactly 1000 and the other with more
C29_Witness ==
  /\ AggregatedMain
  /\ Len(results.table) = 2
  /\ \E r \in Records : r.total_harm = 1000
  /\ stats.stats_dict["Customers with Harm > $1000"] = 1
  /\ stats.stats_dict["% with Harm > $1000"] = Rat(50, 1)

(***************************************************************************)
(* The order among the metrics of one statistics mapping.                  *)
(***************************************************************************)
OrderedKeys ==
  <<"Min Harm", "10th Percentile", "25th Percentile", "Median Harm",
    "75th Percentile", "90th Percentile", "95th Percentile", "99th Percentile",
    "Max Harm">>

\* C30: in the statistics of a non-empty table, Min Harm <= 10th <= 25th <=
\* Median <= 75th <= 90th <= 95th <= 99th Percentile <= Max Harm, and
\* Min Harm <= Mean Harm <= Max Harm.
C30_MetricsOrdered ==
  ((Aggregated \/ AggregatedMain) /\ NonEmpty) =>
    /\ \A k \in 1..(Len(OrderedKeys) - 1) :
         RatLeq(stats.stats_dict[OrderedKeys[k]], stats.stats_dict[OrderedKeys[k + 1]])
    /\ RatLeq(stats.stats_dict["Min Harm"], stats.stats_dict["Mean Harm"])
    /\ RatLeq(stats.stats_dict["Mean Harm"], stats.stats_dict["Max Harm"])

\* statistics of a table of two unequal records: the mean and the median lie
\* strictly between the smallest and the largest value
C30_Witness ==
  /\ Aggregated
  /\ Len(results.table) = 2
  /\ ~RatLeq(stats.stats_dict["Mean Harm"], stats.stats_dict["Min Harm"])
  /\ ~RatLeq(stats.stats_dict["Max Harm"], stats.stats_dict["Mean Harm"])
  /\ ~RatLeq(stats.stats_dict["Median Harm"], stats.stats_dict["10th Percentile"])
  /\ ~RatLeq(stats.stats_dict["99th Percentile"], stats.stats_dict["Median Harm"])
====
